---- MODULE Spec2Model ----
(***************************************************************************)
(* Model of the deep-merge engine merge_hash of aisbergg/ansible-plugins   *)
(* (lookup_plugins/default4dist.py and the copy in                         *)
(* filter_plugins/combine_dict_vars.py) and of the default4dist lookup.    *)
(*                                                                         *)
(* Spec: base and overlay are drawn from InputDicts, the policy from both  *)
(* values of recursive and the six list_merge values plus an invalid one;  *)
(* the call of either copy of merge_hash is one step.                      *)
(* SpecAlias: a call of merge_hash followed by one in-place change of the  *)
(* result or of an input.                                                  *)
(* SpecLookup: a call of the default4dist lookup (LookupModule.run) with   *)
(* one term on a host whose variables define at most MaxVars names for the *)
(* prefix.                                                                 *)
(*                                                                         *)
(* Python objects live in a heap: dicts and lists are heap objects that    *)
(* are reached through references, scalars are immediate values.  A dict   *)
(* keeps its items in insertion order.  A call of merge_hash is one        *)
(* action; it is computed by operators that thread the heap the way the    *)
(* Python code allocates and assigns.                                      *)
(***************************************************************************)
EXTENDS Integers, Sequences, FiniteSets, TLC

VARIABLES heap, heap0, x, y, recursive, list_merge, pc, fn, ret, err,
          variables, terms, kwargs, default_value, dist_value, suffix,
          params, fs, result, saved

vars == <<heap, heap0, x, y, recursive, list_merge, pc, fn, ret, err,
          variables, terms, kwargs, default_value, dist_value, suffix,
          params, fs, result, saved>>

\* The state of a run of the random_password module and of the files a
\* plugin reads: the module's parameters, the files, the module's result.
\* saved is a history variable: the passwords that runs of the module have
\* generated and written, each with its file.
moduleVars == <<params, fs, result, saved>>

\* The state of a call of the default4dist lookup (LookupModule.run).
lookupVars == <<variables, terms, kwargs, default_value, dist_value, suffix>>

(***************************************************************************)
(* Bounds of the inputs.                                                   *)
(***************************************************************************)
MaxDepth == 1   \* nesting depth of mappings below the top-level mapping
MaxKeys == 1    \* number of keys of one mapping
MaxLen == 2     \* length of one list
MaxInt == 2     \* scalars are the integers 1..MaxInt
WideKeys == 2   \* number of keys of one flat mapping
WideLen == 1    \* length of one list in a flat mapping

Keys == {"a", "b"}

(***************************************************************************)
(* Values and references.                                                  *)
(***************************************************************************)
IntV(n) == [t |-> "int", v |-> n]
Ptr(a) == [t |-> "ptr", v |-> a]
NoRet == [t |-> "noret", v |-> 0]

NumericTypes == {"int", "bool"}

\* Values as the caller writes them: scalars, [t |-> "list", v |-> <<values>>]
\* and [t |-> "dict", v |-> <<[k |-> key, v |-> value], ...>>] in insertion order.
ScalarVals == {IntV(n) : n \in 1..MaxInt}

SeqsUpTo(S, n) == UNION {[1..m -> S] : m \in 0..n}

ListVals(n) == {[t |-> "list", v |-> s] : s \in SeqsUpTo(ScalarVals, n)}

LeafVals(n) == ScalarVals \cup ListVals(n)

DictItems(V, n) ==
    {s \in SeqsUpTo([k : Keys, v : V], n) :
        \A i, j \in DOMAIN s : i # j => s[i].k # s[j].k}

RECURSIVE DictVals(_, _, _)
DictVals(d, nkeys, nlen) ==
    LET V == IF d = 0 THEN LeafVals(nlen)
             ELSE LeafVals(nlen) \cup DictVals(d - 1, nkeys, nlen)
    IN  {[t |-> "dict", v |-> s] : s \in DictItems(V, nkeys)}

\* The mappings merge_hash is called with: nested mappings of few keys and
\* flat mappings of more keys.
InputDicts == DictVals(MaxDepth, MaxKeys, MaxLen) \cup DictVals(0, WideKeys, WideLen)

Policies == {"replace", "keep", "append", "prepend", "append_rp", "prepend_rp"}

ListMergeArgs == Policies \cup {"bogus"}

(***************************************************************************)
(* Heap primitives.                                                        *)
(***************************************************************************)
IsDict(h, r) == r.t = "ptr" /\ h[r.v].cls = "dict"
IsList(h, r) == r.t = "ptr" /\ h[r.v].cls = "list"

Items(h, r) == h[r.v].items

KeysOf(h, r) == {Items(h, r)[i].k : i \in DOMAIN Items(h, r)}

HasKey(h, r, key) == key \in KeysOf(h, r)

GetItem(h, r, key) ==
    LET its == Items(h, r)
        i == CHOOSE j \in DOMAIN its : its[j].k = key
    IN  its[i].v

\* d[key] = value, in place: an existing key keeps its position, a new key
\* is added at the end.
SetItem(h, r, key, value) ==
    LET its == Items(h, r)
        new == IF HasKey(h, r, key)
                 THEN [i \in DOMAIN its |->
                         IF its[i].k = key THEN [k |-> key, v |-> value] ELSE its[i]]
                 ELSE Append(its, [k |-> key, v |-> value])
    IN  [h EXCEPT ![r.v] = [cls |-> "dict", items |-> new]]

\* Allocation of a new object: the heap after it and the reference to it.
New(h, obj) == [h |-> Append(h, obj), r |-> Ptr(Len(h) + 1)]

\* The caller builds a value in the heap (children first).
RECURSIVE Alloc(_, _)
RECURSIVE AllocSeq(_, _)
AllocSeq(h, vals) ==
    IF vals = <<>> THEN [h |-> h, rs |-> <<>>]
    ELSE LET first == Alloc(h, Head(vals))
             rest == AllocSeq(first.h, Tail(vals))
         IN  [h |-> rest.h, rs |-> <<first.r>> \o rest.rs]

Alloc(h, val) ==
    IF val.t = "list"
      THEN LET a == AllocSeq(h, val.v)
           IN  New(a.h, [cls |-> "list", items |-> a.rs])
    ELSE IF val.t = "dict"
      THEN LET a == AllocSeq(h, [i \in DOMAIN val.v |-> val.v[i].v])
           IN  New(a.h, [cls |-> "dict",
                         items |-> [i \in DOMAIN val.v |->
                                       [k |-> val.v[i].k, v |-> a.rs[i]]]])
    ELSE [h |-> h, r |-> val]

\* The value a reference denotes, with dicts in insertion order.
RECURSIVE OrdVal(_, _)
OrdVal(h, r) ==
    IF IsList(h, r)
      THEN [t |-> "list", v |-> [i \in DOMAIN Items(h, r) |-> OrdVal(h, Items(h, r)[i])]]
    ELSE IF IsDict(h, r)
      THEN [t |-> "dict",
            v |-> [i \in DOMAIN Items(h, r) |->
                     [k |-> Items(h, r)[i].k, v |-> OrdVal(h, Items(h, r)[i].v)]]]
    ELSE r

\* Python's ==: ints and bools compare by number, lists element by element
\* in order, dicts by key set and the values per key (insertion order is
\* ignored); an object equals itself.
RECURSIVE PyEq(_, _, _)
PyEq(h, r1, r2) ==
    IF r1.t = "ptr" /\ r2.t = "ptr"
      THEN LET i1 == Items(h, r1)
               i2 == Items(h, r2)
           IN  IF r1.v = r2.v THEN TRUE
               ELSE IF h[r1.v].cls # h[r2.v].cls THEN FALSE
               ELSE IF h[r1.v].cls = "list"
                 THEN /\ Len(i1) = Len(i2)
                      /\ \A i \in DOMAIN i1 : PyEq(h, i1[i], i2[i])
               ELSE /\ Len(i1) = Len(i2)
                    /\ \A i \in DOMAIN i1 :
                         \E j \in DOMAIN i2 :
                            /\ i2[j].k = i1[i].k
                            /\ PyEq(h, i1[i].v, i2[j].v)
    ELSE IF r1.t = "ptr" \/ r2.t = "ptr" THEN FALSE
    ELSE /\ r1.v = r2.v
         /\ \/ r1.t = r2.t
            \/ (r1.t \in NumericTypes /\ r2.t \in NumericTypes)

\* z in lst
PyIn(h, z, lst) == \E i \in DOMAIN Items(h, lst) : PyEq(h, z, Items(h, lst)[i])

(***************************************************************************)
(* merge_hash (lookup_plugins/default4dist.py).                            *)
(* A call yields the heap after it, the returned reference and the error   *)
(* raised ("" when it returns).                                            *)
(***************************************************************************)
Return(h, r) == [h |-> h, ret |-> r, err |-> ""]
Raise(h, e) == [h |-> h, ret |-> NoRet, err |-> e]

\* Mutant: the list_merge argument is not validated.
ValidListMerge_Any(lm) == TRUE

\* list_merge in ('replace', 'keep', 'append', 'prepend', 'append_rp', 'prepend_rp')
ValidListMerge(lm) == lm \in Policies

\* Mutant: the early return is taken for an empty base only.
EarlyReturn_EmptyOnly(h, xr, yr) == Items(h, xr) = <<>>

\* x == {} or x == y
EarlyReturn(h, xr, yr) == Items(h, xr) = <<>> \/ PyEq(h, xr, yr)

\* Mutant: no copy is made, the dict itself is used.
DictCopy_Alias(h, r) == [h |-> h, r |-> r]

\* d.copy(): a new dict object holding the same value references
DictCopy(h, r) == New(h, h[r.v])

\* not recursive and list_merge == 'replace'
UseUpdate(rec, lm) == ~rec /\ lm = "replace"

\* x.update(y): every item of y is set in x, in y's order
RECURSIVE UpdateFrom(_, _, _, _)
UpdateFrom(h, xr, yitems, i) ==
    IF i > Len(yitems) THEN h
    ELSE UpdateFrom(SetItem(h, xr, yitems[i].k, yitems[i].v), xr, yitems, i + 1)

\* Mutant: only the keys x lacks are set.
DictUpdate_MissingOnly(h, xr, yr) ==
    UpdateFrom(h, xr, SelectSeq(Items(h, yr), LAMBDA it : ~HasKey(h, xr, it.k)), 1)

DictUpdate(h, xr, yr) == UpdateFrom(h, xr, Items(h, yr), 1)

\* Mutant: no element of x_value is removed.
RemovePresent_NoFilter(h, x_value, y_value) ==
    New(h, [cls |-> "list", items |-> Items(h, x_value)])

\* [z for z in x_value if z not in y_value]: a new list
RemovePresent(h, x_value, y_value) ==
    New(h, [cls |-> "list",
            items |-> SelectSeq(Items(h, x_value), LAMBDA z : ~PyIn(h, z, y_value))])

\* a + b on lists: a new list
ListConcat(h, a, b) == New(h, [cls |-> "list", items |-> Items(h, a) \o Items(h, b)])

\* The branch for two lists at `key`: the heap after x[key] is assigned
\* (or left alone for 'keep').
ListMerge(h, xr, key, x_value, y_value, lm) ==
    IF lm = "replace" THEN SetItem(h, xr, key, y_value)
    ELSE IF lm = "append"
      THEN LET n == ListConcat(h, x_value, y_value) IN SetItem(n.h, xr, key, n.r)
    ELSE IF lm = "prepend"
      THEN LET n == ListConcat(h, y_value, x_value) IN SetItem(n.h, xr, key, n.r)
    ELSE IF lm = "append_rp"
      THEN LET f == RemovePresent(h, x_value, y_value)
               n == ListConcat(f.h, f.r, y_value)
           IN  SetItem(n.h, xr, key, n.r)
    ELSE IF lm = "prepend_rp"
      THEN LET f == RemovePresent(h, x_value, y_value)
               n == ListConcat(f.h, y_value, f.r)
           IN  SetItem(n.h, xr, key, n.r)
    ELSE h

\* Mutant: x's element is kept.
OverrideItem_Keep(h, xr, key, y_value) == h

\* else just override x's element with y's one
OverrideItem(h, xr, key, y_value) == SetItem(h, xr, key, y_value)

\* Mutant: the early return gives x.copy().
EarlyResult_Base(h, xr, yr) == DictCopy(h, xr)

\* The value returned by the first "to speed things up" test: y.copy()
EarlyResult(h, xr, yr) == DictCopy(h, yr)

\* merge_hash_impl is merge_hash with each of its two "to speed things up"
\* tests kept (TRUE) or removed (FALSE), at every level of the recursion.
\* DictBranch is the branch for two dicts at `key`, MergeItem the body of
\* the for loop for one item of y (both yield the heap after it and the
\* error a nested call raised), merge_items the loop from item i on.
RECURSIVE merge_hash_impl(_, _, _, _, _, _, _)

\* Mutant: the test of `recursive` is inverted.
DictBranch_Inverted(h, xr, key, x_value, y_value, rec, lm, early, upd) ==
    IF ~rec
      THEN LET m == merge_hash_impl(h, x_value, y_value, rec, lm, early, upd)
           IN  IF m.err # "" THEN [h |-> m.h, err |-> m.err]
               ELSE [h |-> SetItem(m.h, xr, key, m.ret), err |-> ""]
    ELSE [h |-> SetItem(h, xr, key, y_value), err |-> ""]

DictBranch(h, xr, key, x_value, y_value, rec, lm, early, upd) ==
    IF rec
      THEN LET m == merge_hash_impl(h, x_value, y_value, rec, lm, early, upd)
           IN  IF m.err # "" THEN [h |-> m.h, err |-> m.err]
               ELSE [h |-> SetItem(m.h, xr, key, m.ret), err |-> ""]
    ELSE [h |-> SetItem(h, xr, key, y_value), err |-> ""]

MergeItem(h, xr, key, y_value, rec, lm, early, upd) ==
    IF ~HasKey(h, xr, key)
      THEN [h |-> SetItem(h, xr, key, y_value), err |-> ""]
    ELSE
      LET x_value == GetItem(h, xr, key) IN
      IF IsDict(h, x_value) /\ IsDict(h, y_value)
        THEN DictBranch(h, xr, key, x_value, y_value, rec, lm, early, upd)
      ELSE IF IsList(h, x_value) /\ IsList(h, y_value)
        THEN [h |-> ListMerge(h, xr, key, x_value, y_value, lm), err |-> ""]
      ELSE [h |-> OverrideItem(h, xr, key, y_value), err |-> ""]

RECURSIVE merge_items(_, _, _, _, _, _, _, _)
merge_items(h, xr, yitems, i, rec, lm, early, upd) ==
    IF i > Len(yitems) THEN Return(h, xr)
    ELSE LET s == MergeItem(h, xr, yitems[i].k, yitems[i].v, rec, lm, early, upd)
         IN  IF s.err # "" THEN Raise(s.h, s.err)
             ELSE merge_items(s.h, xr, yitems, i + 1, rec, lm, early, upd)

merge_hash_impl(h, xr, yr, rec, lm, early, upd) ==
    IF ~ValidListMerge(lm) THEN Raise(h, "AnsibleError")
    ELSE IF early /\ EarlyReturn(h, xr, yr)
      THEN LET c == EarlyResult(h, xr, yr) IN Return(c.h, c.r)
    ELSE
      LET c == DictCopy(h, xr) IN
      IF upd /\ UseUpdate(rec, lm)
        THEN Return(DictUpdate(c.h, c.r, yr), c.r)
      ELSE merge_items(c.h, c.r, Items(c.h, yr), 1, rec, lm, early, upd)

merge_hash(h, xr, yr, rec, lm) == merge_hash_impl(h, xr, yr, rec, lm, TRUE, TRUE)

(***************************************************************************)
(* merge_hash (filter_plugins/combine_dict_vars.py): the same text, in a   *)
(* module that imports neither AnsibleError nor iteritems, so that the     *)
(* raise statement and the head of the for loop raise NameError.           *)
(***************************************************************************)
cdv_merge_hash(h, xr, yr, rec, lm) ==
    IF ~ValidListMerge(lm) THEN Raise(h, "NameError")
    ELSE IF EarlyReturn(h, xr, yr)
      THEN LET c == DictCopy(h, yr) IN Return(c.h, c.r)
    ELSE
      LET c == DictCopy(h, xr) IN
      IF UseUpdate(rec, lm)
        THEN Return(DictUpdate(c.h, c.r, yr), c.r)
      ELSE Raise(c.h, "NameError")

\* No module runs and no file is read.
NoModule ==
    /\ params = <<>>
    /\ fs = <<>>
    /\ result = <<>>
    /\ saved = {}

\* merge_hash is called directly: no lookup is in progress.
NoLookup ==
    /\ NoModule
    /\ variables = <<>>
    /\ terms = <<>>
    /\ kwargs = <<>>
    /\ default_value = NoRet
    /\ dist_value = NoRet
    /\ suffix = ""

(***************************************************************************)
(* The state machine: the caller has built base (x) and overlay (y) in     *)
(* the heap and chosen the policy; one call of merge_hash is one action.   *)
(***************************************************************************)
Init ==
    /\ \E bv \in InputDicts, ov \in InputDicts, same \in BOOLEAN :
          LET b == Alloc(<<>>, bv)
              o == IF same THEN b ELSE Alloc(b.h, ov)
          IN  /\ same => ov = bv
              /\ heap = o.h
              /\ x = b.r
              /\ y = o.r
    /\ heap0 = heap
    /\ recursive \in BOOLEAN
    /\ list_merge \in ListMergeArgs
    /\ pc = "start"
    /\ fn = "none"
    /\ ret = NoRet
    /\ err = ""
    /\ NoLookup

default4dist_merge_hash ==
    /\ pc = "start"
    /\ LET m == merge_hash(heap, x, y, recursive, list_merge)
       IN  /\ heap' = m.h
           /\ ret' = m.ret
           /\ err' = m.err
    /\ pc' = "done"
    /\ fn' = "default4dist"
    /\ UNCHANGED <<heap0, x, y, recursive, list_merge>>
    /\ UNCHANGED lookupVars
    /\ UNCHANGED moduleVars

combine_dict_vars_merge_hash ==
    /\ pc = "start"
    /\ LET m == cdv_merge_hash(heap, x, y, recursive, list_merge)
       IN  /\ heap' = m.h
           /\ ret' = m.ret
           /\ err' = m.err
    /\ pc' = "done"
    /\ fn' = "combine_dict_vars"
    /\ UNCHANGED <<heap0, x, y, recursive, list_merge>>
    /\ UNCHANGED lookupVars
    /\ UNCHANGED moduleVars

Next == default4dist_merge_hash \/ combine_dict_vars_merge_hash

Spec == Init /\ [][Next]_vars

(***************************************************************************)
(* Later in-place changes by the caller of merge_hash.                     *)
(* SpecAlias: a call of merge_hash on mappings drawn from AliasDicts,      *)
(* followed by one in-place change of the result or of an input: a key is  *)
(* set in the top-level mapping, or a nested list is appended to / a key   *)
(* is set in a nested mapping.                                             *)
(***************************************************************************)
AliasDicts == DictVals(MaxDepth, MaxKeys, WideLen)

AliasInit ==
    /\ \E bv \in AliasDicts, ov \in AliasDicts, same \in BOOLEAN :
          LET b == Alloc(<<>>, bv)
              o == IF same THEN b ELSE Alloc(b.h, ov)
          IN  /\ same => ov = bv
              /\ heap = o.h
              /\ x = b.r
              /\ y = o.r
    /\ heap0 = heap
    /\ recursive \in BOOLEAN
    /\ list_merge \in Policies
    /\ pc = "start"
    /\ fn = "none"
    /\ ret = NoRet
    /\ err = ""
    /\ NoLookup

\* lst.append(value), in place
ListAppend(h, r, value) ==
    [h EXCEPT ![r.v] = [cls |-> "list", items |-> Append(Items(h, r), value)]]

\* An in-place change of the dict or list object r: d[key] = value or
\* lst.append(value).
ChangeInPlace(h, r, key, value) ==
    IF IsDict(h, r) THEN SetItem(h, r, key, value) ELSE ListAppend(h, r, value)

\* The dict and list objects held directly by the mapping r.
NestedObjects(h, r) ==
    {Items(h, r)[i].v : i \in DOMAIN Items(h, r)} \cap {Ptr(a) : a \in DOMAIN h}

result_set_key ==
    /\ pc = "done" /\ err = ""
    /\ \E key \in Keys, value \in ScalarVals :
          heap' = SetItem(heap, ret, key, value)
    /\ pc' = "result_changed"
    /\ UNCHANGED <<heap0, x, y, recursive, list_merge, fn, ret, err>>
    /\ UNCHANGED lookupVars
    /\ UNCHANGED moduleVars

result_nested_change ==
    /\ pc = "done" /\ err = ""
    /\ \E r \in NestedObjects(heap, ret), key \in Keys, value \in ScalarVals :
          heap' = ChangeInPlace(heap, r, key, value)
    /\ pc' = "result_nested_changed"
    /\ UNCHANGED <<heap0, x, y, recursive, list_merge, fn, ret, err>>
    /\ UNCHANGED lookupVars
    /\ UNCHANGED moduleVars

input_set_key ==
    /\ pc = "done" /\ err = ""
    /\ \E r \in {x, y}, key \in Keys, value \in ScalarVals :
          heap' = SetItem(heap, r, key, value)
    /\ pc' = "input_changed"
    /\ UNCHANGED <<heap0, x, y, recursive, list_merge, fn, ret, err>>
    /\ UNCHANGED lookupVars
    /\ UNCHANGED moduleVars

input_nested_change ==
    /\ pc = "done" /\ err = ""
    /\ \E r \in NestedObjects(heap, x) \cup NestedObjects(heap, y),
          key \in Keys, value \in ScalarVals :
          heap' = ChangeInPlace(heap, r, key, value)
    /\ pc' = "input_nested_changed"
    /\ UNCHANGED <<heap0, x, y, recursive, list_merge, fn, ret, err>>
    /\ UNCHANGED lookupVars
    /\ UNCHANGED moduleVars

AliasNext ==
    \/ default4dist_merge_hash
    \/ result_set_key
    \/ result_nested_change
    \/ input_set_key
    \/ input_nested_change

SpecAlias == AliasInit /\ [][AliasNext]_vars

(***************************************************************************)
(* Vocabulary of the properties.                                           *)
(***************************************************************************)
\* The call of default4dist's merge_hash has returned a value.
D4DReturned == pc = "done" /\ fn = "default4dist" /\ err = ""

\* Key paths into a mapping, and the reference found at the end of one
\* (NoRet when the path leaves the mapping).
Paths == UNION {[1..n -> Keys] : n \in 1..(MaxDepth + 1)}

RECURSIVE At(_, _, _)
At(h, r, p) ==
    IF p = <<>> THEN r
    ELSE IF IsDict(h, r) /\ HasKey(h, r, Head(p))
      THEN At(h, GetItem(h, r, Head(p)), Tail(p))
    ELSE NoRet

\* Base and overlay both hold a value at path p, and p is a top-level key or
\* lies inside mappings that the recursive policy merges.
Meets(p) ==
    /\ At(heap0, x, p) # NoRet
    /\ At(heap0, y, p) # NoRet
    /\ Len(p) > 1 => recursive

BothDicts(p) == IsDict(heap0, At(heap0, x, p)) /\ IsDict(heap0, At(heap0, y, p))
BothLists(p) == IsList(heap0, At(heap0, x, p)) /\ IsList(heap0, At(heap0, y, p))

SeqPyEq(h, s1, s2) ==
    /\ Len(s1) = Len(s2)
    /\ \A i \in DOMAIN s1 : PyEq(h, s1[i], s2[i])

\* The objects reachable from a reference.
RECURSIVE Reach(_, _)
Reach(h, r) ==
    IF r.t # "ptr" THEN {}
    ELSE {r.v} \cup
         UNION {Reach(h, IF h[r.v].cls = "dict" THEN Items(h, r)[i].v ELSE Items(h, r)[i]) :
                   i \in DOMAIN Items(h, r)}

\* The value of a reference up to Python's ==: numbers by their number,
\* dicts as functions of their keys.
RECURSIVE PyVal(_, _)
PyVal(h, r) ==
    IF IsList(h, r)
      THEN [t |-> "list", v |-> [i \in DOMAIN Items(h, r) |-> PyVal(h, Items(h, r)[i])]]
    ELSE IF IsDict(h, r)
      THEN [t |-> "dict", v |-> [key \in KeysOf(h, r) |-> PyVal(h, GetItem(h, r, key))]]
    ELSE IF r.t \in NumericTypes THEN [t |-> "num", v |-> r.v]
    ELSE r

\* The outcome of a call up to Python's ==, and with key order.
PyOutcome(m) == [err |-> m.err, val |-> PyVal(m.h, m.ret)]
OrdOutcome(m) == [err |-> m.err, val |-> OrdVal(m.h, m.ret)]

(***************************************************************************)
(* C1: merge_hash leaves base and overlay, and every mapping and sequence  *)
(* reachable from them, as they were before the call, under every policy   *)
(* and in both copies of the function.                                     *)
(***************************************************************************)
C1_InputsUnchanged ==
    pc = "done" =>
        \A a \in Reach(heap0, x) \cup Reach(heap0, y) : heap[a] = heap0[a]

\* A call that merged nested values in the loop: it built more than the copy
\* of base, and the result differs from base.
C1_Witness ==
    /\ D4DReturned
    /\ Len(heap) > Len(heap0) + 1
    /\ ~PyEq(heap, ret, x)
    /\ ~PyEq(heap, ret, y)

\* The list that list_merge (replace, keep, append, prepend) asks for at path p.
C2_Expected(p) ==
    LET xs == Items(heap0, At(heap0, x, p))
        ys == Items(heap0, At(heap0, y, p))
    IN  CASE list_merge = "replace" -> ys
          [] list_merge = "keep" -> xs
          [] list_merge = "append" -> xs \o ys
          [] list_merge = "prepend" -> ys \o xs

(***************************************************************************)
(* C2: two lists that meet at the same key (at any depth the recursion     *)
(* reaches) are combined by list_merge: replace gives the overlay list,    *)
(* keep the base list, append base then overlay, prepend overlay then      *)
(* base.                                                                   *)
(***************************************************************************)
C2_ListMergeByPolicy ==
    (D4DReturned /\ list_merge \in {"replace", "keep", "append", "prepend"}) =>
        \A p \in Paths :
            (Meets(p) /\ BothLists(p)) =>
                /\ IsList(heap, At(heap, ret, p))
                /\ SeqPyEq(heap, Items(heap, At(heap, ret, p)), C2_Expected(p))

\* The elements of xs that equal no element of ys, in order.
RECURSIVE C3_NotInOverlay(_, _, _)
C3_NotInOverlay(h, xs, ys) ==
    IF xs = <<>> THEN <<>>
    ELSE LET rest == C3_NotInOverlay(h, Tail(xs), ys)
         IN  IF \E j \in DOMAIN ys : PyEq(h, Head(xs), ys[j])
               THEN rest
               ELSE <<Head(xs)>> \o rest

(***************************************************************************)
(* C3: under append_rp the merged list is the base elements that equal no  *)
(* overlay element, in order and with their duplicates, followed by the    *)
(* whole overlay list; under prepend_rp the whole overlay list followed by *)
(* those base elements.  The overlay list is not deduplicated.             *)
(***************************************************************************)
C3_RemovePresentPolicies ==
    (D4DReturned /\ list_merge \in {"append_rp", "prepend_rp"}) =>
        \A p \in Paths :
            (Meets(p) /\ BothLists(p)) =>
                LET xs == Items(heap0, At(heap0, x, p))
                    ys == Items(heap0, At(heap0, y, p))
                    kept == C3_NotInOverlay(heap0, xs, ys)
                    rs == At(heap, ret, p)
                IN  /\ IsList(heap, rs)
                    /\ Items(heap, rs) =
                          IF list_merge = "append_rp" THEN kept \o ys ELSE ys \o kept

\* Nested lists under append_rp: the overlay list holds one element twice, the
\* base list holds that element (dropped) and another one (kept).
C3_Witness ==
    /\ D4DReturned
    /\ list_merge = "append_rp"
    /\ \E p \in Paths :
          /\ Len(p) > 1
          /\ Meets(p) /\ BothLists(p)
          /\ LET xs == Items(heap0, At(heap0, x, p))
                 ys == Items(heap0, At(heap0, y, p))
             IN  /\ Len(xs) = 2 /\ Len(ys) = 2
                 /\ ys[1] = ys[2]
                 /\ xs[1] = ys[1]
                 /\ xs[2] # ys[1]
                 /\ Len(Items(heap, At(heap, ret, p))) = 3

(***************************************************************************)
(* C4: where base and overlay both hold a mapping at a key, recursive=true *)
(* gives merge_hash of the two nested mappings under the same policy (the  *)
(* keys of both, base-only keys with their base value), and                *)
(* recursive=false gives exactly the overlay's nested mapping, with no     *)
(* base-only nested key; for every list_merge value.                       *)
(***************************************************************************)
C4_NestedMappings ==
    D4DReturned =>
        \A k \in Keys :
            LET p == <<k>>
                xv == At(heap0, x, p)
                yv == At(heap0, y, p)
                rv == At(heap, ret, p)
                m == merge_hash(heap, xv, yv, recursive, list_merge)
            IN  (Meets(p) /\ BothDicts(p)) =>
                    /\ IsDict(heap, rv)
                    /\ recursive =>
                          /\ PyEq(m.h, rv, m.ret)
                          /\ KeysOf(heap, rv) = KeysOf(heap0, xv) \cup KeysOf(heap0, yv)
                          /\ \A j \in KeysOf(heap0, xv) \ KeysOf(heap0, yv) :
                                GetItem(heap, rv, j) = GetItem(heap0, xv, j)
                    /\ ~recursive =>
                          /\ PyEq(heap, rv, yv)
                          /\ KeysOf(heap, rv) = KeysOf(heap0, yv)

\* Nested mappings with different keys met under a list policy other than
\* replace, merged recursively into a mapping with both keys.
C4_Witness ==
    /\ D4DReturned
    /\ recursive
    /\ list_merge = "keep"
    /\ \E k \in Keys :
          /\ Meets(<<k>>) /\ BothDicts(<<k>>)
          /\ KeysOf(heap0, At(heap0, x, <<k>>)) \ KeysOf(heap0, At(heap0, y, <<k>>)) # {}
          /\ KeysOf(heap0, At(heap0, y, <<k>>)) \ KeysOf(heap0, At(heap0, x, <<k>>)) # {}
          /\ Cardinality(KeysOf(heap, At(heap, ret, <<k>>))) = 2

(***************************************************************************)
(* C5: for a key present in base and overlay whose values are not both     *)
(* mappings and not both sequences, the result holds the overlay's value,  *)
(* under every policy (list_merge=keep included).                          *)
(***************************************************************************)
C5_OverlayWinsOnMismatch ==
    D4DReturned =>
        \A p \in Paths :
            (Meets(p) /\ ~BothDicts(p) /\ ~BothLists(p)) =>
                At(heap, ret, p) = At(heap0, y, p)

\* merge({a: 1}, {a: [..]}) under keep: scalar in base, list in overlay.
C5_Witness ==
    /\ D4DReturned
    /\ list_merge = "keep"
    /\ \E k \in Keys :
          /\ Meets(<<k>>)
          /\ At(heap0, x, <<k>>).t = "int"
          /\ IsList(heap0, At(heap0, y, <<k>>))
          /\ IsList(heap, At(heap, ret, <<k>>))

(***************************************************************************)
(* C6: merge_hash(m, m, policy) equals m for every mapping m and every     *)
(* policy, append and prepend on mappings holding lists included.          *)
(***************************************************************************)
C6_SelfMerge ==
    (D4DReturned /\ PyEq(heap0, x, y)) => PyVal(heap, ret) = PyVal(heap0, x)

\* A mapping holding a non-empty list merged with itself under append.
C6_Witness ==
    /\ D4DReturned
    /\ x = y
    /\ list_merge = "append"
    /\ \E k \in Keys :
          /\ IsList(heap0, At(heap0, x, <<k>>))
          /\ Items(heap0, At(heap0, x, <<k>>)) # <<>>

(***************************************************************************)
(* C7: merge_hash({}, y, policy) equals y for every mapping y and every    *)
(* valid policy.                                                           *)
(***************************************************************************)
C7_EmptyBase ==
    (pc = "done" /\ fn = "default4dist" /\ Items(heap0, x) = <<>>
        /\ list_merge \in Policies) =>
        /\ err = ""
        /\ PyVal(heap, ret) = PyVal(heap0, y)

C7_Witness ==
    /\ D4DReturned
    /\ Items(heap0, x) = <<>>
    /\ Len(Items(heap0, y)) = 2
    /\ recursive
    /\ list_merge = "prepend_rp"

(***************************************************************************)
(* C8: merge_hash with the early return (base empty or base equal to       *)
(* overlay) removed produces the same result as merge_hash with it, for    *)
(* every base, overlay and policy.                                         *)
(***************************************************************************)
C8_EarlyReturnRemovable ==
    (pc = "done" /\ fn = "default4dist") =>
        PyOutcome(merge_hash_impl(heap0, x, y, recursive, list_merge, FALSE, TRUE))
            = PyOutcome([h |-> heap, ret |-> ret, err |-> err])

(***************************************************************************)
(* C9: under recursive=false and list_merge=replace the key-overwrite fast *)
(* path (copy base, set every overlay key) gives a result identical to the *)
(* general per-key loop, for every base and overlay.                       *)
(***************************************************************************)
C9_UpdateFastPath ==
    (pc = "done" /\ fn = "default4dist" /\ ~recursive /\ list_merge = "replace") =>
        /\ OrdOutcome([h |-> heap, ret |-> ret, err |-> err])
              = OrdOutcome(merge_hash_impl(heap0, x, y, recursive, list_merge, TRUE, FALSE))
        /\ OrdOutcome(merge_hash_impl(heap0, x, y, recursive, list_merge, FALSE, TRUE))
              = OrdOutcome(merge_hash_impl(heap0, x, y, recursive, list_merge, FALSE, FALSE))

\* The fast path taken on a base with a key the overlay lacks and a key the
\* overlay overwrites, and an overlay key the base lacks.
C9_Witness ==
    /\ D4DReturned
    /\ ~recursive
    /\ list_merge = "replace"
    /\ ~EarlyReturn(heap0, x, y)
    /\ KeysOf(heap0, x) \cap KeysOf(heap0, y) # {}
    /\ KeysOf(heap0, x) \ KeysOf(heap0, y) # {}
    /\ \E k \in KeysOf(heap0, x) \cap KeysOf(heap0, y) :
          ~PyEq(heap0, At(heap0, x, <<k>>), At(heap0, y, <<k>>))

(***************************************************************************)
(* C10: merge_hash fails with an error and returns no value whenever       *)
(* list_merge is not one of the six policies, for every base and overlay,  *)
(* also when base is empty or equal to overlay.                            *)
(***************************************************************************)
C10_InvalidListMerge ==
    (pc = "done" /\ list_merge \notin Policies) =>
        /\ err # ""
        /\ ret = NoRet
        /\ heap = heap0

\* The invalid policy given with a base that would take the early return.
C10_Witness ==
    /\ pc = "done"
    /\ fn = "default4dist"
    /\ list_merge \notin Policies
    /\ EarlyReturn(heap0, x, y)
    /\ err = "AnsibleError"

\* The inputs of the call are as they were when it was made.
InputsAsBefore == \A a \in Reach(heap0, x) \cup Reach(heap0, y) : heap[a] = heap0[a]

\* The value merge_hash returned, with key order, as it was when returned.
ReturnedValue == OrdOutcome(merge_hash(heap0, x, y, recursive, list_merge)).val

(***************************************************************************)
(* C11 (as stated): the result is a freshly constructed value graph that   *)
(* shares no nested mapping or sequence with base or overlay, so a later   *)
(* in-place change to the result never changes base or overlay, and a      *)
(* change to base or overlay never changes the result.                     *)
(***************************************************************************)
C11_FreshValueGraph ==
    /\ pc \in {"result_changed", "result_nested_changed"} => InputsAsBefore
    /\ pc \in {"input_changed", "input_nested_changed"} =>
          OrdVal(heap, ret) = ReturnedValue

(***************************************************************************)
(* C11 (amended): the mapping merge_hash returns is a new top-level        *)
(* object, never base or overlay themselves: setting a key of the result   *)
(* leaves base and overlay unchanged, and setting a key of base or overlay *)
(* leaves the result unchanged.  (Nested values may be shared.)            *)
(***************************************************************************)
C11_FreshTopLevel ==
    /\ (pc # "start" /\ err = "") => ret.v > Len(heap0)
    /\ pc = "result_changed" => InputsAsBefore
    /\ pc = "input_changed" => OrdVal(heap, ret) = ReturnedValue

\* A key was set in a result that shares a nested object with an input.
C11_Witness ==
    /\ pc = "result_changed"
    /\ Reach(heap, ret) \cap (Reach(heap0, x) \cup Reach(heap0, y)) # {}
    /\ heap[ret.v] # heap0[x.v]
    /\ heap[ret.v] # heap0[y.v]

\* The keys of a mapping in order, and those of ys that are not in xs.
KeySeq(h, r) == [i \in DOMAIN Items(h, r) |-> Items(h, r)[i].k]
NewKeys(xs, ys) == SelectSeq(ys, LAMBDA k : \A i \in DOMAIN xs : xs[i] # k)

(***************************************************************************)
(* C12: the keys of the returned mapping are the keys of base in base's    *)
(* order, then the keys found only in overlay in overlay's order, on every *)
(* path through merge_hash and for every policy.                           *)
(***************************************************************************)
C12_KeyOrder ==
    D4DReturned =>
        KeySeq(heap, ret) =
            KeySeq(heap0, x) \o NewKeys(KeySeq(heap0, x), KeySeq(heap0, y))

(***************************************************************************)
(* The default4dist lookup (LookupModule in lookup_plugins/default4dist.py)*)
(*                                                                         *)
(* SpecLookup: the lookup is called with one term and the variables of a   *)
(* host; the call of run is one action.                                    *)
(***************************************************************************)
MaxVars == 2    \* number of variables defined for the prefix

\* None
NoneV == [t |-> "none", v |-> 0]

\* bool(value) of a variable's value
Truthy(h, r) ==
    IF r.t = "ptr" THEN Items(h, r) # <<>>
    ELSE IF r.t \in NumericTypes THEN r.v # 0
    ELSE FALSE

\* The value of an option of a term or of a keyword argument: a string, a
\* bool, or None when the option is not given.
NoneOpt == [t |-> "none", s |-> ""]
StrOpt(s) == [t |-> "str", s |-> s]
BoolOpt(b) == [t |-> "bool", s |-> IF b THEN "True" ELSE "False"]

OptTruthy(o) == (o.t = "str" /\ o.s # "") \/ (o.t = "bool" /\ o.s = "True")

\* str.lower() on the strings of the model
StrLower(s) ==
    CASE s = "Ubuntu" -> "ubuntu"
      [] s = "Debian" -> "debian"
      [] s = "True" -> "true"
      [] s = "False" -> "false"
      [] OTHER -> s

TrueStrings == {"y", "yes", "t", "true", "on", "1"}
FalseStrings == {"n", "no", "f", "false", "off", "0"}

\* distutils.util.strtobool: val.lower() fails on a bool.
strtobool(o) ==
    IF o.t # "str" THEN [err |-> "AttributeError", val |-> FALSE]
    ELSE IF StrLower(o.s) \in TrueStrings THEN [err |-> "", val |-> TRUE]
    ELSE IF StrLower(o.s) \in FalseStrings THEN [err |-> "", val |-> FALSE]
    ELSE [err |-> "ValueError", val |-> FALSE]

\* A term: a string that parse_kv splits into key=value options (kv) and
\* free-form words (raw, the words of '_raw_params'), or a dict of options.
NoOptions == [prefix |-> NoneOpt, recursive |-> NoneOpt, list_merge |-> NoneOpt]
StrTerm(raw) == [kind |-> "str", kv |-> NoOptions, raw |-> raw]
KvTerm(p, r, l) ==
    [kind |-> "str", kv |-> [prefix |-> p, recursive |-> r, list_merge |-> l],
     raw |-> <<>>]
DictTerm(p, r, l) ==
    [kind |-> "dict", kv |-> [prefix |-> p, recursive |-> r, list_merge |-> l],
     raw |-> <<>>]

\* raw_params[i] when it exists and the option is not set yet
FromRaw(o, raw, i) == IF Len(raw) >= i /\ ~OptTruthy(o) THEN StrOpt(raw[i]) ELSE o

parse_parameters(term) ==
    IF term.kind \notin {"str", "dict"}
      THEN [err |-> "AnsibleParserError", prefix |-> NoneOpt,
            recursive |-> FALSE, list_merge |-> ""]
    ELSE
      LET prefix == FromRaw(term.kv.prefix, term.raw, 1)
          rec == FromRaw(term.kv.recursive, term.raw, 2)
          lm == FromRaw(term.kv.list_merge, term.raw, 3)
          b == IF OptTruthy(rec) THEN strtobool(rec) ELSE [err |-> "", val |-> FALSE]
      IN  [err |-> b.err, prefix |-> prefix, recursive |-> b.val,
           list_merge |-> IF OptTruthy(lm) THEN lm.s ELSE "replace"]

\* The facts of the host, as run reads them from variables.
Facts ==
    [ansible_distribution |-> "Debian",
     ansible_os_family |-> "Debian",
     ansible_distribution_version |-> "12.5",
     ansible_distribution_major_version |-> "12",
     ansible_distribution_release |-> "bookworm"]

os_distribution == StrLower(Facts.ansible_distribution)
os_familiy == StrLower(Facts.ansible_os_family)
os_version == Facts.ansible_distribution_version
os_major_version == Facts.ansible_distribution_major_version  \* str() of a string
os_release == Facts.ansible_distribution_release

\* The elements of the set literal 'suffixes', in the order they are written.
SuffixList ==
    <<os_distribution \o "_" \o os_version,
      os_distribution \o "_" \o os_release,
      os_distribution \o "_" \o os_major_version,
      os_distribution,
      os_familiy \o "_" \o os_version,
      os_familiy \o "_" \o os_release,
      os_familiy \o "_" \o os_major_version,
      os_familiy>>

suffixes == {SuffixList[i] : i \in DOMAIN SuffixList}

\* The elements of 'suffixes' once each, in the order of their first
\* occurrence in the set literal (on this host the family is the
\* distribution, so the family suffixes repeat the distribution suffixes).
RECURSIVE Distinct(_)
Distinct(s) ==
    IF s = <<>> THEN <<>>
    ELSE LET d == Distinct(SubSeq(s, 1, Len(s) - 1))
             last == s[Len(s)]
         IN  IF \E i \in DOMAIN d : d[i] = last THEN d ELSE Append(d, last)

DocumentedOrder == Distinct(SuffixList)

\* 'suffixes' is a set: 'for suffix in suffixes' visits its elements in an
\* order the code does not choose.  The first present candidate ends the
\* loop, so the orders that start at each element in turn give every outcome.
Rotate(s, n) == [i \in DOMAIN s |-> s[((i + n - 1) % Len(s)) + 1]]
IterationOrders == {Rotate(DocumentedOrder, n) : n \in 0..(Len(DocumentedOrder) - 1)}

\* variables.get(name, None)
VarGet(vs, name) == IF name \in DOMAIN vs THEN vs[name] ELSE NoneV

\* The lambda get_value: a or b yields b when a is None or falsy.
get_value(h, vs, prefix, sfx) ==
    LET a == VarGet(vs, prefix \o sfx)
    IN  IF Truthy(h, a) THEN a ELSE VarGet(vs, prefix \o "_" \o sfx)

\* merge_hash(x, y, ...) where y may be any value: a list has copy() but no
\* items(), and dict.update accepts only an empty list of the lists of the
\* model; other values have neither.
merge_hash_overlay(h, xr, yr, rec, lm) ==
    IF IsDict(h, yr) THEN merge_hash(h, xr, yr, rec, lm)
    ELSE IF ~ValidListMerge(lm) THEN Raise(h, "AnsibleError")
    ELSE IF EarlyReturn(h, xr, yr)
      THEN IF IsList(h, yr)
             THEN LET c == New(h, h[yr.v]) IN Return(c.h, c.r)
           ELSE Raise(h, "AttributeError")
    ELSE
      LET c == DictCopy(h, xr) IN
      IF UseUpdate(rec, lm)
        THEN IF IsList(h, yr) /\ Items(h, yr) = <<>>
               THEN Return(c.h, c.r)
             ELSE Raise(c.h, "TypeError")
      ELSE Raise(c.h, "AttributeError")

\* default_value is a dict
CombineDict_Swapped(h, d, c, rec, lm) ==
    IF IsDict(h, c) THEN merge_hash_overlay(h, c, d, rec, lm)
    ELSE merge_hash_overlay(h, d, c, rec, lm)

\* default_value is a dict
CombineDict(h, d, c, rec, lm) == merge_hash_overlay(h, d, c, rec, lm)

\* default_value is a list
CombineList_Reversed(h, d, c) ==
    IF IsList(h, c)
      THEN LET n == ListConcat(h, c, d) IN Return(n.h, n.r)
    ELSE Raise(h, "TypeError")

\* default_value is a list: default_value + dist_value
CombineList(h, d, c) ==
    IF IsList(h, c)
      THEN LET n == ListConcat(h, d, c) IN Return(n.h, n.r)
    ELSE Raise(h, "TypeError")

\* default_value is neither dict nor list, or is None
CombineOther_Default(h, d, c) == Return(h, d)

\* default_value is neither dict nor list, or is None
CombineOther(h, d, c) == Return(h, c)

\* The value appended for a candidate that is not None.
Combine(h, d, c, rec, lm) ==
    IF d # NoneV
      THEN IF IsDict(h, d) THEN CombineDict(h, d, c, rec, lm)
           ELSE IF IsList(h, d) THEN CombineList(h, d, c)
           ELSE CombineOther(h, d, c)
    ELSE CombineOther(h, d, c)

\* The else branch of the for loop: no candidate ended the loop.
NoCandidate_None(d) == NoneV

\* The else branch of the for loop: no candidate ended the loop.
NoCandidate(d) == d

\* The position in order of the first suffix whose value is not None, or 0.
RECURSIVE FirstPresent(_, _, _, _, _)
FirstPresent(h, vs, prefix, order, i) ==
    IF i > Len(order) THEN 0
    ELSE IF get_value(h, vs, prefix, order[i]) # NoneV THEN i
    ELSE FirstPresent(h, vs, prefix, order, i + 1)

\* The locals of run after a pass of 'for term in terms', with the heap h
\* and the exception e that ended the pass ("" when it completed).
Locals(h, e, p, d, c, sfx) ==
    [h |-> h, err |-> e, recursive |-> p.recursive, list_merge |-> p.list_merge,
     default_value |-> d, dist_value |-> c, suffix |-> sfx]

\* ret.append(m), where computing m may have raised
Appended(retl, p, d, c, sfx, m) ==
    Locals(IF m.err = "" THEN ListAppend(m.h, retl, m.ret) ELSE m.h,
           m.err, p, d, c, sfx)

\* The body of 'if dist_value is not None', for the candidate c of sfx
WithCandidate(h, retl, p, d, c, sfx) ==
    Appended(retl, p, d, c, sfx, Combine(h, d, c, p.recursive, p.list_merge))

\* 'for suffix in suffixes ... else', i being the position of the first
\* suffix whose value is not None
ScanSuffixes(h, retl, p, vs, order, d, i) ==
    IF i = 0
      THEN Locals(ListAppend(h, retl, NoCandidate(d)), "", p, d, NoneV, "")
    ELSE WithCandidate(h, retl, p, d,
                       get_value(h, vs, p.prefix.s, order[i]), order[i])

\* The pass after _parse_parameters returned p: prefix + suffix raises
\* TypeError when prefix is None.
AfterParse(h, retl, p, vs, order) ==
    IF p.err # "" THEN Locals(h, p.err, p, NoRet, NoRet, "")
    ELSE IF p.prefix.t # "str" THEN Locals(h, "TypeError", p, NoRet, NoRet, "")
    ELSE ScanSuffixes(h, retl, p, vs, order,
                      get_value(h, vs, p.prefix.s, "default"),
                      FirstPresent(h, vs, p.prefix.s, order, 1))

\* One pass of 'for term in terms': what it appends to the list retl, or the
\* exception it raises.
run_term(h, retl, term, vs, order) ==
    AfterParse(h, retl, parse_parameters(term), vs, order)

RECURSIVE run_terms(_, _, _, _, _, _, _)
RECURSIVE NextTerm(_, _, _, _, _, _)
NextTerm(retl, ts, i, vs, order, t) ==
    IF t.err # "" THEN t
    ELSE run_terms(t.h, retl, ts, i + 1, vs, order, t)

run_terms(h, retl, ts, i, vs, order, last) ==
    IF i > Len(ts) THEN last
    ELSE NextTerm(retl, ts, i, vs, order, run_term(h, retl, ts[i], vs, order))

\* 'return ret', or no value when a pass raised
Returned(retl, r) == r @@ [ret |-> IF r.err = "" THEN retl ELSE NoRet]

\* l is the list 'ret = []'
RunFrom(l, ts, vs, order) ==
    Returned(l.r,
             run_terms(l.h, l.r, ts, 1, vs, order,
                       Locals(l.h, "", [recursive |-> FALSE, list_merge |-> ""],
                              NoRet, NoRet, "")))

\* LookupModule.run(terms, variables, **kwargs): kwargs is not read.
run(h, ts, vs, kw, order) ==
    RunFrom(New(h, [cls |-> "list", items |-> <<>>]), ts, vs, order)

(***************************************************************************)
(* The calls of the lookup.                                                *)
(***************************************************************************)
Prefix == "_myvar"

\* The names run looks up for Prefix.
VarNames ==
    {Prefix \o sfx : sfx \in suffixes \cup {"default"}}
      \cup {Prefix \o "_" \o sfx : sfx \in suffixes \cup {"default"}}

\* The values of the variables: falsy and truthy scalars, lists and mappings.
LookupVals ==
    LET int(n) == IntV(n)
        list(s) == [t |-> "list", v |-> s]
        dict(k, v) == [t |-> "dict", v |-> <<[k |-> k, v |-> v]>>]
    IN  {int(0), int(1), list(<<>>), list(<<int(1)>>), list(<<int(2)>>),
         [t |-> "dict", v |-> <<>>],
         dict("a", int(1)), dict("b", int(2)),
         dict("a", dict("a", int(1))), dict("a", dict("b", int(2))),
         dict("a", list(<<int(1)>>)), dict("a", list(<<int(2)>>))}

\* The terms: free-form words, key=value options, and a dict of options.
TermChoices ==
    {StrTerm(<<Prefix>>),
     StrTerm(<<Prefix, "True">>),
     StrTerm(<<Prefix, "no", "append">>),
     StrTerm(<<Prefix, "yes", "prepend_rp">>),
     StrTerm(<<Prefix, "True", "bogus">>),
     KvTerm(StrOpt(Prefix), StrOpt("true"), StrOpt("keep")),
     DictTerm(StrOpt(Prefix), BoolOpt(TRUE), NoneOpt)}

\* Keyword arguments, as in lookup('default4dist', '_myvar', recursive=True).
NoKwargs == [recursive |-> NoneOpt, list_merge |-> NoneOpt]
KwargChoices ==
    {[recursive |-> BoolOpt(TRUE), list_merge |-> NoneOpt],
     [recursive |-> NoneOpt, list_merge |-> StrOpt("append")]}

\* The options are given in the term, or as keyword arguments next to the
\* bare prefix.
CallForms ==
    {[term |-> t, kwargs |-> NoKwargs] : t \in TermChoices}
      \cup {[term |-> StrTerm(<<Prefix>>), kwargs |-> kw] : kw \in KwargChoices}

\* The caller builds the values of the variables in the heap.
RECURSIVE AllocVars(_, _, _)
AllocVars(h, names, vals) ==
    IF names = {} THEN [h |-> h, vs |-> <<>>]
    ELSE LET n == CHOOSE n \in names : TRUE
             a == Alloc(h, vals[n])
             rest == AllocVars(a.h, names \ {n}, vals)
         IN  [h |-> rest.h, vs |-> (n :> a.r) @@ rest.vs]

LookupInit ==
    /\ \E names \in {ns \in SUBSET VarNames : Cardinality(ns) <= MaxVars} :
         \E vals \in [names -> LookupVals] :
            LET a == AllocVars(<<>>, names, vals)
            IN  /\ heap = a.h
                /\ variables = a.vs
    /\ \E call \in CallForms :
          /\ terms = <<call.term>>
          /\ kwargs = call.kwargs
    /\ heap0 = heap
    /\ x = NoRet
    /\ y = NoRet
    /\ recursive = FALSE
    /\ list_merge = ""
    /\ default_value = NoRet
    /\ dist_value = NoRet
    /\ suffix = ""
    /\ NoModule
    /\ pc = "start"
    /\ fn = "none"
    /\ ret = NoRet
    /\ err = ""

\* The state run leaves.
RunOutcome(r) ==
    /\ heap' = r.h
    /\ ret' = r.ret
    /\ err' = r.err
    /\ recursive' = r.recursive
    /\ list_merge' = r.list_merge
    /\ default_value' = r.default_value
    /\ dist_value' = r.dist_value
    /\ suffix' = r.suffix

LookupModule_run ==
    /\ pc = "start"
    /\ \E order \in IterationOrders :
          RunOutcome(run(heap, terms, variables, kwargs, order))
    /\ pc' = "done"
    /\ fn' = "run"
    /\ UNCHANGED <<heap0, x, y, variables, terms, kwargs>>
    /\ UNCHANGED moduleVars

LookupNext == LookupModule_run

SpecLookup == LookupInit /\ [][LookupNext]_vars

(***************************************************************************)
(* Vocabulary of the properties of the lookup.                             *)
(***************************************************************************)
\* run was called with one term whose options were parsed, so that the
\* default and the suffixes were looked up.
Scanned ==
    pc = "done" /\ fn = "run" /\ Len(terms) = 1 /\ parse_parameters(terms[1]).err = ""

\* run returned its list.
LookupReturned == Scanned /\ err = ""

\* The element of the returned list for the term.
Result == Items(heap, ret)[1]

\* What the two name forms of a suffix yield in the caller's variables.
Looked(sfx) == get_value(heap0, variables, Prefix, sfx)

\* The suffixes that yield a value, and the most specific of them.
PresentSuffixes == {sfx \in suffixes : Looked(sfx) # NoneV}
MostSpecific ==
    DocumentedOrder[FirstPresent(heap0, variables, Prefix, DocumentedOrder, 1)]

\* The objects of the caller's variables are as they were before the call.
VariablesAsBefore == \A a \in DOMAIN heap0 : heap[a] = heap0[a]

(* C13: when at least one suffix candidate is present, the candidate the    *)
(* lookup uses is the first present one in the documented order of          *)
(* precedence (the most specific one), never a less specific one.           *)
C13_DocumentedOrder ==
    (Scanned /\ PresentSuffixes # {}) => suffix = MostSpecific

(* C14: when no suffix candidate and no default is present, the lookup      *)
(* fails with an error and returns no value.                                *)
C14_NotFound ==
    (Scanned /\ PresentSuffixes = {} /\ Looked("default") = NoneV)
        => (err # "" /\ ret = NoRet)

\* A suffix candidate ended the loop of run; Candidate is what its name
\* forms yield, TheDefault what the name forms of 'default' yield.
CandidateChosen == Scanned /\ suffix \in suffixes
Candidate == Looked(suffix)
TheDefault == Looked("default")

(* C15: when the lookup finds a candidate and the default it finds is a     *)
(* mapping, the result is merge_hash(default, candidate, recursive,         *)
(* list_merge) with the parsed policy, the default as base and the          *)
(* candidate as overlay: for a mapping candidate the result has the keys of *)
(* both, a key of the default alone keeps its value, and a scalar value of  *)
(* the candidate wins; the caller's variables are not changed.              *)
C15_MergeDefaultWithCandidate ==
    (CandidateChosen /\ IsDict(heap0, TheDefault)) =>
        LET m == merge_hash_overlay(heap0, TheDefault, Candidate, recursive, list_merge)
        IN  /\ err = m.err
            /\ err = "" => OrdVal(heap, Result) = OrdVal(m.h, m.ret)
            /\ (err = "" /\ IsDict(heap0, Candidate)) =>
                  /\ KeysOf(heap, Result)
                        = KeysOf(heap0, TheDefault) \cup KeysOf(heap0, Candidate)
                  /\ \A k \in KeysOf(heap0, TheDefault) \ KeysOf(heap0, Candidate) :
                        OrdVal(heap, GetItem(heap, Result, k))
                          = OrdVal(heap0, GetItem(heap0, TheDefault, k))
                  /\ \A k \in KeysOf(heap0, Candidate) :
                        GetItem(heap0, Candidate, k).t # "ptr"
                          => GetItem(heap, Result, k) = GetItem(heap0, Candidate, k)
            /\ VariablesAsBefore

\* A mapping default and a mapping candidate with different keys: the result
\* holds the default's key and the candidate's key.
C15_Witness ==
    /\ CandidateChosen /\ err = ""
    /\ IsDict(heap0, TheDefault) /\ IsDict(heap0, Candidate)
    /\ KeysOf(heap0, TheDefault) # {} /\ KeysOf(heap0, Candidate) # {}
    /\ KeysOf(heap0, TheDefault) \cap KeysOf(heap0, Candidate) = {}
    /\ KeysOf(heap, Result) = Keys

(* C16: when the lookup finds a candidate and the default it finds is a     *)
(* sequence, the result is a new list holding the default's elements        *)
(* followed by the candidate's, whatever recursive and list_merge are (a    *)
(* candidate that is not a sequence raises TypeError); the caller's         *)
(* variables are not changed.                                               *)
C16_ListDefaultConcatenated ==
    (CandidateChosen /\ IsList(heap0, TheDefault)) =>
        /\ IF IsList(heap0, Candidate)
             THEN /\ err = ""
                  /\ IsList(heap, Result)
                  /\ Result.v > Len(heap0)
                  /\ Items(heap, Result)
                        = Items(heap0, TheDefault) \o Items(heap0, Candidate)
           ELSE err = "TypeError"
        /\ VariablesAsBefore

\* Default [1] and candidate [2] under recursive=True, list_merge=prepend_rp
\* (a policy that would put the candidate first) give [1, 2].
C16_Witness ==
    /\ CandidateChosen /\ err = ""
    /\ recursive /\ list_merge = "prepend_rp"
    /\ IsList(heap0, TheDefault) /\ IsList(heap0, Candidate)
    /\ Items(heap0, TheDefault) = <<IntV(1)>>
    /\ Items(heap0, Candidate) = <<IntV(2)>>
    /\ Items(heap, Result) = <<IntV(1), IntV(2)>>

BothForms(sfx) ==
    /\ (Prefix \o sfx) \in DOMAIN variables
    /\ (Prefix \o "_" \o sfx) \in DOMAIN variables

\* The value of the direct-concatenation name of sfx.
DirectValue(sfx) == OrdVal(heap0, variables[Prefix \o sfx])

(* C19: when both prefix+suffix and prefix+'_'+suffix are defined, the      *)
(* value the lookup uses for that suffix (for 'default': as the default;    *)
(* for the suffix that ended the loop: as the candidate) is the value of    *)
(* prefix+suffix.                                                           *)
C19_DirectFormFirst ==
    Scanned =>
        /\ BothForms("default") => OrdVal(heap0, default_value) = DirectValue("default")
        /\ (suffix \in suffixes /\ BothForms(suffix))
              => OrdVal(heap0, dist_value) = DirectValue(suffix)

\* The options given to the lookup: a keyword argument, else the term's.
RequestedRecursive ==
    IF kwargs.recursive # NoneOpt THEN OptTruthy(kwargs.recursive) ELSE recursive
RequestedListMerge ==
    IF kwargs.list_merge # NoneOpt THEN kwargs.list_merge.s ELSE list_merge

(* C20: the recursive and list_merge options given to the lookup are the    *)
(* policy of the merge: a mapping default is merged with the chosen mapping *)
(* candidate as merge_hash does under the requested options (recursive=True *)
(* merges nested mappings, a list_merge value is the list policy).          *)
C20_OptionsDeterminePolicy ==
    (CandidateChosen /\ IsDict(heap0, TheDefault) /\ IsDict(heap0, Candidate)) =>
        LET m == merge_hash(heap0, TheDefault, Candidate,
                            RequestedRecursive, RequestedListMerge)
        IN  /\ err = m.err
            /\ err = "" => OrdVal(heap, Result) = OrdVal(m.h, m.ret)

(***************************************************************************)
(* The extend_by_name lookup (LookupModule in                              *)
(* lookup_plugins/extend_by_name.py).                                      *)
(*                                                                         *)
(* SpecExtend: the lookup is called with positional arguments (terms) and  *)
(* keyword arguments; the variables are a dict, kept as its items in       *)
(* insertion order.  The call of run is one action.                        *)
(***************************************************************************)
MaxNamed == 2    \* number of variables the caller defines

\* The variable names of the model, in the order sorted() gives them.
NameOrder == <<"_myvar_a", "_myvar_b", "_myvarc", "other">>
Names == {NameOrder[i] : i \in DOMAIN NameOrder}

\* name.startswith(prefix)
StartsWith(name, prefix) ==
    Len(prefix) <= Len(name) /\ SubSeq(name, 1, Len(prefix)) = prefix

\* The keys of a dict of variables in insertion order (variables.keys()).
VarKeys_Unsorted(vs) == [i \in DOMAIN vs |-> vs[i].k]

\* sorted(variables.keys())
SortedKeys(vs) == SelectSeq(NameOrder, LAMBDA n : \E i \in DOMAIN vs : vs[i].k = n)

\* variables[name]
VarItem(vs, name) == vs[CHOOSE i \in DOMAIN vs : vs[i].k = name].v

\* templar.template(value) of a value that holds no template: an equal
\* value built of new lists and dicts.
template(h, r) == Alloc(h, OrdVal(h, r))

\* merge_hash of ansible.utils.vars (Ansible 2.10): the text copied into
\* default4dist.py, with the call of _validate_mutable_mappings(x, y) that
\* the copy comments out.
ansible_merge_hash(h, xr, yr, rec, lm) ==
    IF ~ValidListMerge(lm) THEN Raise(h, "AnsibleError")
    ELSE IF ~IsDict(h, xr) \/ ~IsDict(h, yr) THEN Raise(h, "AnsibleError")
    ELSE merge_hash(h, xr, yr, rec, lm)

\* The keyword arguments of a call; an argument that is not given reads as
\* None.  unknown: a keyword other than the four is given.
ExtendKwargs(d, p, r, l, u) ==
    [default |-> d, prefix |-> p, recursive |-> r, list_merge |-> l, unknown |-> u]

\* args[i] when it exists and the parameter is not set (not truthy) yet
ArgOpt(o, args, i) == IF Len(args) >= i /\ ~OptTruthy(o) THEN args[i] ELSE o
ArgDefault(h, d, args) == IF Len(args) >= 1 /\ ~Truthy(h, d) THEN args[1] ELSE d

\* _parse_parameters without the two tests of the default value
ExtendChecked_AnyDefault(h, d, p, r, l) ==
    [err |-> IF OptTruthy(r) THEN strtobool(r).err ELSE "",
     default |-> d, prefix |-> p,
     recursive |-> IF OptTruthy(r) THEN strtobool(r).val ELSE FALSE,
     list_merge |-> IF OptTruthy(l) THEN l.s ELSE "replace"]

\* _parse_parameters after the parameters are filled in
ExtendChecked(h, d, p, r, l) ==
    IF d = NoneV \/ (~IsList(h, d) /\ ~IsDict(h, d))
      THEN [err |-> "AnsibleParserError", default |-> d, prefix |-> p,
            recursive |-> FALSE, list_merge |-> ""]
    ELSE [err |-> IF OptTruthy(r) THEN strtobool(r).err ELSE "",
          default |-> d, prefix |-> p,
          recursive |-> IF OptTruthy(r) THEN strtobool(r).val ELSE FALSE,
          list_merge |-> IF OptTruthy(l) THEN l.s ELSE "replace"]

\* LookupModule._parse_parameters(args, kwargs) of extend_by_name
extend_parse_parameters(h, args, kw) ==
    IF kw.unknown
      THEN [err |-> "AnsibleParserError", default |-> NoneV, prefix |-> NoneOpt,
            recursive |-> FALSE, list_merge |-> ""]
    ELSE ExtendChecked(h, ArgDefault(h, kw.default, args),
                       ArgOpt(kw.prefix, args, 2),
                       ArgOpt(kw.recursive, args, 3),
                       ArgOpt(kw.list_merge, args, 4))

\* [name for name in sorted(variables.keys()) if name.startswith(prefix)]
MatchingVars(vs, prefix) == SelectSeq(SortedKeys(vs), LAMBDA n : StartsWith(n, prefix))

\* The test of the value in the branch 'elif isinstance(ret, dict)'
DictValueAccepted(h, v) == IsList(h, v)

\* ret + value as an outcome
Concatenated(n) == Return(n.h, n.r)

RECURSIVE extend_fold(_, _, _, _, _, _, _)
RECURSIVE ExtendContinue(_, _, _, _, _, _)
ExtendContinue(names, i, vs, rec, lm, m) ==
    IF m.err # "" THEN m
    ELSE extend_fold(m.h, m.ret, names, i + 1, vs, rec, lm)

\* The body of 'for name in matching_vars' for the rendered value t.r
ExtendValue(acc, names, i, vs, rec, lm, t) ==
    IF IsList(t.h, acc)
      THEN IF ~IsList(t.h, t.r) THEN Raise(t.h, "ValueError")
           ELSE ExtendContinue(names, i, vs, rec, lm,
                           Concatenated(ListConcat(t.h, acc, t.r)))
    ELSE IF ~DictValueAccepted(t.h, t.r) THEN Raise(t.h, "ValueError")
    ELSE ExtendContinue(names, i, vs, rec, lm,
                    ansible_merge_hash(t.h, acc, t.r, rec, lm))

\* 'for name in matching_vars' from position i on, ret being acc
extend_fold(h, acc, names, i, vs, rec, lm) ==
    IF i > Len(names) THEN Return(h, acc)
    ELSE ExtendValue(acc, names, i, vs, rec, lm,
                     template(h, VarItem(vs, names[i])))

\* return ret
ListOf_Bare(m) == m

\* return [ret]
ListOf(m) ==
    IF m.err # "" THEN m
    ELSE Concatenated(New(m.h, [cls |-> "list", items |-> <<m.ret>>]))

\* run after _parse_parameters returned p: startswith(None) raises
\* TypeError for the first name.
ExtendAfterParse(h, vs, p) ==
    IF p.err # "" THEN Raise(h, p.err)
    ELSE IF p.prefix.t # "str"
      THEN IF vs = <<>> THEN ListOf(Return(h, p.default))
           ELSE Raise(h, "TypeError")
    ELSE ListOf(extend_fold(h, p.default, MatchingVars(vs, p.prefix.s), 1, vs,
                            p.recursive, p.list_merge))

\* LookupModule.run(terms, variables, **kwargs) of extend_by_name
extend_by_name_run(h, args, vs, kw) ==
    ExtendAfterParse(h, vs, extend_parse_parameters(h, args, kw))

(***************************************************************************)
(* The calls of extend_by_name.                                            *)
(***************************************************************************)
\* The values of the variables and of the default.
NamedVals ==
    {IntV(1),
     [t |-> "list", v |-> <<>>], [t |-> "list", v |-> <<IntV(1)>>],
     [t |-> "list", v |-> <<IntV(2)>>],
     [t |-> "dict", v |-> <<>>],
     [t |-> "dict", v |-> <<[k |-> "a", v |-> IntV(1)]>>],
     [t |-> "dict", v |-> <<[k |-> "b", v |-> IntV(2)]>>]}

\* The dicts of at most MaxNamed variables, as items in insertion order.
VarSeqs ==
    UNION {{vs \in [1..n -> [k : Names, v : NamedVals]] :
               \A i, j \in 1..n : i # j => vs[i].k # vs[j].k} : n \in 0..MaxNamed}

\* The caller builds the values of the variables in the heap.
RECURSIVE AllocItems(_, _)
AllocItems(h, items) ==
    IF items = <<>> THEN [h |-> h, vs |-> <<>>]
    ELSE LET a == Alloc(h, Head(items).v)
             rest == AllocItems(a.h, Tail(items))
         IN  [h |-> rest.h, vs |-> <<[k |-> Head(items).k, v |-> a.r]>> \o rest.vs]

NoExtendKwargs == ExtendKwargs(NoneV, NoneOpt, NoneOpt, NoneOpt, FALSE)

\* The calls with the default d: positional arguments, keyword arguments,
\* both (as in EXAMPLES), no prefix, an unknown keyword.
ExtendCalls(d) ==
    {[args |-> <<d, StrOpt(Prefix)>>, kwargs |-> NoExtendKwargs],
     [args |-> <<d, StrOpt(Prefix), StrOpt("True"), StrOpt("append")>>,
      kwargs |-> NoExtendKwargs],
     [args |-> <<>>,
      kwargs |-> ExtendKwargs(d, StrOpt(Prefix), NoneOpt, NoneOpt, FALSE)],
     [args |-> <<d, StrOpt(Prefix)>>,
      kwargs |-> ExtendKwargs(NoneV, NoneOpt, BoolOpt(TRUE), NoneOpt, FALSE)],
     [args |-> <<d>>, kwargs |-> NoExtendKwargs],
     [args |-> <<d, StrOpt(Prefix)>>,
      kwargs |-> ExtendKwargs(NoneV, NoneOpt, NoneOpt, NoneOpt, TRUE)]}

ExtendInit ==
    /\ \E vs \in VarSeqs, dv \in NamedVals \cup {NoneV} :
          LET a == AllocItems(<<>>, vs)
              d == Alloc(a.h, dv)
          IN  /\ heap = d.h
              /\ variables = a.vs
              /\ \E call \in ExtendCalls(d.r) :
                    /\ terms = call.args
                    /\ kwargs = call.kwargs
    /\ heap0 = heap
    /\ x = NoRet
    /\ y = NoRet
    /\ recursive = FALSE
    /\ list_merge = ""
    /\ default_value = NoRet
    /\ dist_value = NoRet
    /\ suffix = ""
    /\ NoModule
    /\ pc = "start_extend"
    /\ fn = "none"
    /\ ret = NoRet
    /\ err = ""

\* The state run leaves: p is what _parse_parameters returned.
ExtendOutcome(p, r) ==
    /\ heap' = r.h
    /\ ret' = r.ret
    /\ err' = r.err
    /\ recursive' = p.recursive
    /\ list_merge' = p.list_merge
    /\ default_value' = p.default

extend_by_name ==
    /\ pc = "start_extend"
    /\ ExtendOutcome(extend_parse_parameters(heap, terms, kwargs),
                     extend_by_name_run(heap, terms, variables, kwargs))
    /\ pc' = "done"
    /\ fn' = "extend_by_name"
    /\ UNCHANGED <<heap0, x, y, variables, terms, kwargs, dist_value, suffix>>
    /\ UNCHANGED moduleVars

ExtendNext == extend_by_name

SpecExtend == ExtendInit /\ [][ExtendNext]_vars

(***************************************************************************)
(* SpecEntry: a call of either lookup with any number of terms: the        *)
(* default4dist lookup with up to MaxTerms terms, or the extend_by_name    *)
(* lookup as in SpecExtend.                                                *)
(***************************************************************************)
MaxTerms == 2    \* number of terms of a call of default4dist

EntryTerms ==
    SeqsUpTo({StrTerm(<<Prefix>>), StrTerm(<<Prefix, "True">>),
              StrTerm(<<Prefix, "True", "bogus">>)}, MaxTerms)

EntryLookupInit ==
    /\ \E names \in {ns \in SUBSET VarNames : Cardinality(ns) <= MaxVars} :
         \E vals \in [names -> LookupVals] :
            LET a == AllocVars(<<>>, names, vals)
            IN  /\ heap = a.h
                /\ variables = a.vs
    /\ terms \in EntryTerms
    /\ kwargs = NoKwargs
    /\ heap0 = heap
    /\ x = NoRet
    /\ y = NoRet
    /\ recursive = FALSE
    /\ list_merge = ""
    /\ default_value = NoRet
    /\ dist_value = NoRet
    /\ suffix = ""
    /\ NoModule
    /\ pc = "start"
    /\ fn = "none"
    /\ ret = NoRet
    /\ err = ""

EntryInit == EntryLookupInit \/ ExtendInit

EntryNext == LookupModule_run \/ extend_by_name

SpecEntry == EntryInit /\ [][EntryNext]_vars

\* A lookup returned its list.
EntryReturned == pc = "done" /\ fn \in {"run", "extend_by_name"} /\ err = ""

(* C21: a successful call of default4dist run or of extend_by_name run      *)
(* returns a list with exactly one element, whatever the number of terms.   *)
C21_SingleElement ==
    EntryReturned => (IsList(heap, ret) /\ Len(Items(heap, ret)) = 1)

(* C21, amended: a successful call of extend_by_name run returns a list     *)
(* with exactly one element, whatever the number of terms; a successful     *)
(* call of default4dist run returns a list with one element per term.       *)
C21_OnePerCall ==
    EntryReturned =>
        /\ IsList(heap, ret)
        /\ fn = "extend_by_name" => Len(Items(heap, ret)) = 1
        /\ fn = "run" => Len(Items(heap, ret)) = Len(terms)

\* extend_by_name with four terms and a matching variable folded into a
\* list default: one element, the extended list.
C21_Witness ==
    /\ EntryReturned /\ fn = "extend_by_name"
    /\ Len(terms) = 4
    /\ Len(Items(heap, ret)) = 1
    /\ IsList(heap, Items(heap, ret)[1])
    /\ Len(Items(heap, Items(heap, ret)[1])) = 2

(***************************************************************************)
(* Vocabulary of the properties of extend_by_name.                         *)
(***************************************************************************)
\* What _parse_parameters makes of the call.
ExtendParams == extend_parse_parameters(heap0, terms, kwargs)

\* run was called, its parameters were accepted and a prefix was given.
Extended ==
    /\ pc = "done" /\ fn = "extend_by_name"
    /\ ExtendParams.err = "" /\ ExtendParams.prefix.t = "str"

\* The element of the returned list.
ExtendResult == Items(heap, ret)[1]

\* The names of the caller's variables that start with the prefix, in
\* lexicographic order, and their values.
PrefixedNames ==
    SelectSeq(NameOrder,
              LAMBDA n : /\ \E i \in DOMAIN variables : variables[i].k = n
                         /\ StartsWith(n, ExtendParams.prefix.s))
PrefixedValues == [i \in DOMAIN PrefixedNames |-> VarItem(variables, PrefixedNames[i])]

\* The elements of the lists vals[i..], one list after the other.
RECURSIVE Flattened(_, _, _)
Flattened(h, vals, i) ==
    IF i > Len(vals) THEN <<>>
    ELSE Items(h, vals[i]) \o Flattened(h, vals, i + 1)

C23_MappingAccepted ==
    (/\ Extended /\ IsDict(heap0, default_value)
     /\ \A i \in DOMAIN PrefixedValues : IsDict(heap0, PrefixedValues[i]))
    => /\ err = ""
       /\ IsDict(heap, ExtendResult)
       /\ KeysOf(heap0, default_value) \subseteq KeysOf(heap, ExtendResult)
       /\ \A i \in DOMAIN PrefixedValues :
              KeysOf(heap0, PrefixedValues[i]) \subseteq KeysOf(heap, ExtendResult)

\* The default value the caller gave, by keyword or as the first positional
\* argument; None when it gave none.
GivenDefault ==
    IF kwargs.default # NoneV THEN kwargs.default
    ELSE IF Len(terms) >= 1 THEN terms[1]
    ELSE NoneV

\* The call of extend_by_name is over; only the four known keywords were used.
ExtendCalled == pc = "done" /\ fn = "extend_by_name" /\ ~kwargs.unknown

EmptyDefaultAccepted ==
    /\ ExtendCalled /\ err = ""
    /\ IsList(heap0, GivenDefault) /\ Items(heap0, GivenDefault) = <<>>
    /\ PrefixedNames = <<>>
    /\ Items(heap, ExtendResult) = <<>>

(***************************************************************************)
(* FilterModule.combine_dict_vars (filter_plugins/combine_dict_vars.py).   *)
(* SpecCombine: one call of the filter on a mapping of up to MaxCombined   *)
(* variables, with a literal pattern, either value of recursive and every  *)
(* list_merge argument.  The pattern is held in terms.                     *)
(***************************************************************************)
MaxCombined == 3   \* number of variables of the filter's mapping

\* re.match(pattern, key) for a pattern without special characters: the
\* pattern is matched at the start of the key.
re_match(pattern, key) == StartsWith(key, pattern)

\* The message of the filter error for the variable key.
NotDictError(key) ==
    "AnsibleFilterError: Failed to combine vars: '" \o key \o "' is not of type 'dict'"

RECURSIVE combine_fold(_, _, _, _, _, _, _, _)
\* result = merge_hash(...), then the next key
CombineContinue(names, i, vs, pattern, rec, lm, m) ==
    IF m.err # "" THEN m
    ELSE combine_fold(m.h, m.ret, names, i + 1, vs, pattern, rec, lm)

\* merge_hash(result, value, recursive=recursive, list_merge=list_merge)
CombineMerge(h, acc, v, rec, lm) == cdv_merge_hash(h, acc, v, rec, lm)

\* 'for key in sorted(vars.keys())' from position i on, result being acc
combine_fold(h, acc, names, i, vs, pattern, rec, lm) ==
    IF i > Len(names) THEN Return(h, acc)
    ELSE IF ~re_match(pattern, names[i])
      THEN combine_fold(h, acc, names, i + 1, vs, pattern, rec, lm)
    ELSE IF ~IsDict(h, VarItem(vs, names[i]))
      THEN Raise(h, NotDictError(names[i]))
    ELSE CombineContinue(names, i, vs, pattern, rec, lm,
                         CombineMerge(h, acc, VarItem(vs, names[i]), rec, lm))

\* The loop, result being the new empty dict e.r
CombineFrom(e, vs, pattern, rec, lm) ==
    combine_fold(e.h, e.r, SortedKeys(vs), 1, vs, pattern, rec, lm)

\* combine_dict_vars(self, vars, pattern, recursive, list_merge)
combine_dict_vars(h, vs, pattern, rec, lm) ==
    CombineFrom(Alloc(h, [t |-> "dict", v |-> <<>>]), vs, pattern, rec, lm)

CombineVals ==
    {IntV(1),
     [t |-> "dict", v |-> <<>>],
     [t |-> "dict", v |-> <<[k |-> "a", v |-> IntV(1)]>>],
     [t |-> "dict", v |-> <<[k |-> "a", v |-> IntV(2)]>>],
     [t |-> "dict", v |-> <<[k |-> "b", v |-> IntV(2)]>>],
     [t |-> "dict", v |-> <<[k |-> "a", v |-> [t |-> "list", v |-> <<IntV(1)>>]]>>]}

\* The mappings of at most MaxCombined variables, as items in insertion order.
CombineVarSeqs ==
    UNION {{vs \in [1..n -> [k : Names, v : CombineVals]] :
               \A i, j \in 1..n : i # j => vs[i].k # vs[j].k} : n \in 0..MaxCombined}

Patterns == {Prefix, "_myvar_"}

CombineInit ==
    /\ \E vs \in CombineVarSeqs :
          LET a == AllocItems(<<>>, vs)
          IN  heap = a.h /\ variables = a.vs
    /\ heap0 = heap
    /\ terms \in {<<StrOpt(p)>> : p \in Patterns}
    /\ recursive \in BOOLEAN
    /\ list_merge \in ListMergeArgs
    /\ x = NoRet
    /\ y = NoRet
    /\ kwargs = <<>>
    /\ default_value = NoRet
    /\ dist_value = NoRet
    /\ suffix = ""
    /\ NoModule
    /\ pc = "start_combine"
    /\ fn = "none"
    /\ ret = NoRet
    /\ err = ""

\* The state the filter leaves
CombineOutcome(m) ==
    /\ heap' = m.h
    /\ ret' = m.ret
    /\ err' = m.err

FilterModule_combine_dict_vars ==
    /\ pc = "start_combine"
    /\ CombineOutcome(combine_dict_vars(heap, variables, terms[1].s, recursive, list_merge))
    /\ pc' = "done"
    /\ fn' = "FilterModule.combine_dict_vars"
    /\ UNCHANGED <<heap0, x, y, recursive, list_merge>>
    /\ UNCHANGED lookupVars
    /\ UNCHANGED moduleVars

CombineNext == FilterModule_combine_dict_vars

SpecCombine == CombineInit /\ [][CombineNext]_vars

\* The filter was called.
Combined == pc = "done" /\ fn = "FilterModule.combine_dict_vars"

\* The names of the variables that match the pattern, in lexicographic
\* order, and their values.
CombinedNames ==
    SelectSeq(NameOrder,
              LAMBDA n : /\ \E i \in DOMAIN variables : variables[i].k = n
                         /\ StartsWith(n, terms[1].s))
CombinedValues == [i \in DOMAIN CombinedNames |-> VarItem(variables, CombinedNames[i])]

\* merge_hash folded over vals[i..], m being the outcome so far.
RECURSIVE MergedFrom(_, _, _, _, _)
MergedFrom(m, vals, i, rec, lm) ==
    IF i > Len(vals) THEN m
    ELSE MergedFrom(merge_hash(m.h, m.ret, vals[i], rec, lm), vals, i + 1, rec, lm)

\* The outcome that starts from the empty mapping e.r
MergedOver(e, vals, rec, lm) == MergedFrom(Return(e.h, e.r), vals, 1, rec, lm)

\* The fold of merge_hash over the matching variables.
MergedAll ==
    MergedOver(Alloc(heap0, [t |-> "dict", v |-> <<>>]), CombinedValues,
               recursive, list_merge)

\* The first matching name whose value is not a mapping.
FirstNotDict ==
    CombinedNames[CHOOSE i \in DOMAIN CombinedNames :
                     /\ ~IsDict(heap0, CombinedValues[i])
                     /\ \A j \in 1..(i - 1) : IsDict(heap0, CombinedValues[j])]

(* C25: for either value of recursive and every valid list_merge,           *)
(* combine_dict_vars returns the fold of merge_hash, from an empty mapping  *)
(* and in sorted name order, over all variables whose name matches the      *)
(* pattern; when a matching variable is not a dict it fails with a filter   *)
(* error that names the key.                                                *)
C25_FoldOfMergeHash ==
    (Combined /\ ValidListMerge(list_merge)) =>
        IF \A i \in DOMAIN CombinedValues : IsDict(heap0, CombinedValues[i])
          THEN /\ err = ""
               /\ IsDict(heap, ret)
               /\ OrdVal(heap, ret) = OrdVal(MergedAll.h, MergedAll.ret)
        ELSE err = NotDictError(FirstNotDict)

(***************************************************************************)
(* The random_password module (modules/random_password.py).                *)
(* SpecPassword: any number of runs of the module, one after the other, on *)
(* the same files.  fs maps a path to what is there; a run draws its       *)
(* parameters and, when it generates, its password.                        *)
(***************************************************************************)
DevNull == "/dev/null"
PasswordFiles == {"/etc/ansible/passwords/password", "/tmp/pw", DevNull}

DefaultMode == 256   \* 0o400
GivenMode == 384     \* 0o600, the mode parameter of the runs that give one
CreateMode == 420    \* 0o644, the mode of a file that open() creates

\* What is at a path.  blocked: a component of the path is a regular file,
\* so that nothing exists at the path and its parent cannot be created.
Absent == [kind |-> "absent", content |-> "", mode |-> 0]
Blocked == [kind |-> "blocked", content |-> "", mode |-> 0]
Directory == [kind |-> "dir", content |-> "", mode |-> 493]
CharDevice == [kind |-> "chardev", content |-> "", mode |-> 438]
RegularFile(c, m) == [kind |-> "file", content |-> c, mode |-> m]

\* Path.exists() and Path.is_file()
Exists(f, path) == f[path].kind \in {"file", "dir", "chardev"}
IsFile(f, path) == f[path].kind = "file"

\* The mode parameter: not given, an integer, a string such as "0600"
NoMode == [t |-> "none", v |-> 0]
IntMode(m) == [t |-> "int", v |-> m]
StrMode(m) == [t |-> "str", v |-> m]

PasswordLengths == {1, 2}

\* _create_password: length characters drawn at random
Passwords(length) == {pw \in {"a", "b", "ab", "cd"} : Len(pw) = length}

\* module.params["mode"] or 0o400
ModeOf(ps) == IF ps.mode.t = "none" THEN IntMode(DefaultMode) ELSE ps.mode

\* with file_path.open(mode="w") as fid: the file is created or truncated
Opened(f, path) ==
    [f EXCEPT ![path] =
        RegularFile("", IF IsFile(f, path) THEN f[path].mode ELSE CreateMode)]

\* file_path.chmod(mode); fid.write(content)
Written(f, path, content, mode) ==
    [f EXCEPT ![path] = RegularFile(content, mode.v)]

\* The test 'file_path == "/dev/null"' of a Path against a str, which is
\* false for every path.
IsDevNullStr(path) == FALSE

\* _write_password_file(file_path, content, mode): the files afterwards and
\* the exception raised ("" for none)
write_password_file(f, path, content, mode) ==
    IF IsDevNullStr(path) THEN [fs |-> f, err |-> ""]
    ELSE IF Exists(f, path) /\ ~IsFile(f, path) THEN [fs |-> f, err |-> "OSError"]
    ELSE IF f[path].kind = "blocked" THEN [fs |-> f, err |-> "OSError"]
    ELSE IF mode.t = "str" THEN [fs |-> Opened(f, path), err |-> "OSError"]
    ELSE [fs |-> Written(f, path, content, mode), err |-> ""]

\* module.set_mode_if_different(file_path, mode, False): no change in check
\* mode
set_mode_if_different(f, path, mode, check_mode) ==
    IF check_mode \/ ~Exists(f, path) THEN f
    ELSE [f EXCEPT ![path].mode = mode.v]

\* result as main builds it
ModuleResult(changed, failed, password, facts) ==
    [changed |-> changed, failed |-> failed, password |-> password,
     ansible_facts |-> facts]

\* if var_name: result["ansible_facts"] = {var_name: result["password"]}
FactsOf(ps) == IF OptTruthy(ps.var_name) THEN ps.var_name ELSE NoneOpt

\* The end of main after the password is read or written: the file
\* attributes are set, the fact is added, exit_json
ExitJson(ps, f, password, at) ==
    [fs |-> set_mode_if_different(f, ps.file, ModeOf(ps), ps.check_mode),
     result |-> ModuleResult(FALSE, FALSE, StrOpt(password), FactsOf(ps)),
     pc |-> at]

\* main from 'write password to file' on, w being what the write did
AfterWrite(ps, f, password, w) ==
    IF w.err # ""
      THEN [fs |-> w.fs,
            result |-> ModuleResult(FALSE, TRUE, StrOpt(password), NoneOpt),
            pc |-> "fail_write"]
    ELSE ExitJson(ps, w.fs, password, "exit_saved")

\* result["changed"] = True in check mode
CheckChanged == TRUE

\* A run that never looks for the password file
ReadsFile_Never(ps, f) == FALSE

\* if file_path != Path("/dev/null") and file_path.exists()
ReadsFile(ps, f) == ps.file # DevNull /\ Exists(f, ps.file)

\* main with the parameters ps, pw being the password _create_password
\* returns when it is called: the files and result afterwards and the place
\* where main ended
main(ps, f, pw) ==
    IF ReadsFile(ps, f)
      THEN IF ~IsFile(f, ps.file)
             THEN [fs |-> f,
                   result |-> ModuleResult(FALSE, TRUE, NoneOpt, NoneOpt),
                   pc |-> "fail_read"]
           ELSE ExitJson(ps, f, f[ps.file].content, "exit_read")
    ELSE IF ps.check_mode
      THEN [fs |-> f,
            result |-> ModuleResult(CheckChanged, FALSE, StrOpt(pw), NoneOpt),
            pc |-> "exit_check"]
    ELSE AfterWrite(ps, f, pw,
                    write_password_file(f, ps.file, pw, ModeOf(ps)))

\* The parameters of a run
ModuleParams ==
    [file : PasswordFiles, check_mode : BOOLEAN, length : PasswordLengths,
     mode : {NoMode, IntMode(GivenMode), StrMode(GivenMode)},
     var_name : {NoneOpt, StrOpt("pw")}]

\* What is at a path before the first run
InitialFiles ==
    {f \in [PasswordFiles -> {Absent, Blocked, Directory, CharDevice,
                              RegularFile("old", DefaultMode)}] :
        \A path \in PasswordFiles : (f[path] = CharDevice) <=> (path = DevNull)}

PasswordInit ==
    /\ fs \in InitialFiles
    /\ params = <<>>
    /\ result = <<>>
    /\ saved = {}
    /\ heap = <<>>
    /\ heap0 = <<>>
    /\ x = NoRet
    /\ y = NoRet
    /\ recursive = FALSE
    /\ list_merge = ""
    /\ variables = <<>>
    /\ terms = <<>>
    /\ kwargs = <<>>
    /\ default_value = NoRet
    /\ dist_value = NoRet
    /\ suffix = ""
    /\ pc = "idle"
    /\ fn = "none"
    /\ ret = NoRet
    /\ err = ""

\* The passwords generated and written so far, the one of this run included
SavedAfter(ps, m) ==
    IF m.pc = "exit_saved"
      THEN saved \cup {[file |-> ps.file, password |-> m.result.password.s]}
    ELSE saved

\* The state a run leaves
ModuleOutcome(ps, m) ==
    /\ params' = ps
    /\ fs' = m.fs
    /\ result' = m.result
    /\ pc' = m.pc
    /\ saved' = SavedAfter(ps, m)

random_password ==
    /\ fn \in {"none", "main"}
    /\ \E ps \in ModuleParams :
          \E pw \in Passwords(ps.length) : ModuleOutcome(ps, main(ps, fs, pw))
    /\ fn' = "main"
    /\ UNCHANGED <<heap, heap0, x, y, recursive, list_merge, ret, err>>
    /\ UNCHANGED lookupVars

PasswordNext == random_password

SpecPassword == PasswordInit /\ [][PasswordNext]_vars

\* A run of the module is over.
ModuleRan == fn = "main"

\* The passwords that were generated and written for the file of this run.
SavedHere == {g \in saved : g.file = params.file}

C27_DevNullSkipsSaving ==
    (ModuleRan /\ params.file = DevNull) =>
        /\ ~result.failed
        /\ pc \in {"exit_check", "exit_saved"}
        /\ result.password.t = "str"
        /\ fs[DevNull] = CharDevice

(* C28: in a run that succeeds, changed is true exactly when the run        *)
(* generated a new password (in check mode, or in normal mode where it is   *)
(* also saved), and false when an existing password file was read.          *)
C28_ChangedWhenGenerated ==
    (ModuleRan /\ ~result.failed) =>
        (result.changed <=> pc \in {"exit_check", "exit_saved"})

(***************************************************************************)
(* The env_file lookup (lookup_plugins/env_file.py).                       *)
(* SpecEnvFile: one call of LookupModule.run with up to MaxEnvTerms terms  *)
(* for a host in any of the groups of GroupOrder; fs is the set of the     *)
(* paths that exist.                                                       *)
(***************************************************************************)
MaxEnvTerms == 2   \* number of terms of one call

EnvBase == "/inv"
HostName == "h1"
GroupOrder == <<"db", "web">>      \* the groups, in lexicographic order
EnvNames == {"a", "b"}

\* base_path / 'host_files' / host / fn and base_path / 'group_files' / g / fn
HostPath(name) == EnvBase \o "/host_files/" \o HostName \o "/" \o name
GroupPath(g, name) == EnvBase \o "/group_files/" \o g \o "/" \o name

Reversed(s) == [i \in DOMAIN s |-> s[Len(s) + 1 - i]]

\* sorted(variables['group_names'], reverse=True) + ['all']
env_groups(vs) ==
    SelectSeq(Reversed(GroupOrder),
              LAMBDA g : \E i \in DOMAIN vs.group_names : vs.group_names[i] = g)
    \o <<"all">>

\* paths
env_paths(vs, name) ==
    <<HostPath(name)>>
    \o [i \in DOMAIN env_groups(vs) |-> GroupPath(env_groups(vs)[i], name)]

\* A term: a file name, or a dict with the keys name and skip, either of
\* which may be missing (name "", skip "none").
EnvStr(name) == [t |-> "str", name |-> name, skip |-> "none"]
EnvDict(name, skip) == [t |-> "dict", name |-> name, skip |-> skip]

\* skip = term.get('skip', skip) for a dict term
SkipAfter(term, skip) ==
    IF term.t = "dict" /\ term.skip # "none" THEN term.skip = "true" ELSE skip

\* The position in paths, from i on, of the first path that
\* find_file_in_search_path finds; 0 when it finds none.
RECURSIVE FirstFound(_, _, _)
FirstFound(f, paths, i) ==
    IF i > Len(paths) THEN 0
    ELSE IF paths[i] \in f THEN i
    ELSE FirstFound(f, paths, i + 1)

\* str(paths) without the brackets
RECURSIVE Joined(_, _)
Joined(paths, i) ==
    IF i > Len(paths) THEN ""
    ELSE IF i = Len(paths) THEN "'" \o paths[i] \o "'"
    ELSE "'" \o paths[i] \o "', " \o Joined(paths, i + 1)

NotFoundError(paths) ==
    "AnsibleLookupError: No file was found. Searched in: [" \o Joined(paths, 1) \o "]"

RECURSIVE env_terms(_, _, _, _, _, _)
\* The loop over paths and its else branch for the term ts[i]; k is the
\* position of the file that was found
EnvSearched(ts, i, vs, skip, f, results, paths, k) ==
    IF k # 0 THEN env_terms(ts, i + 1, vs, skip, f, Append(results, paths[k]))
    ELSE IF skip THEN [ret |-> <<>>, err |-> ""]
    ELSE [ret |-> NoRet, err |-> NotFoundError(paths)]

\* The body of 'for term in terms' after skip is updated
EnvTerm(ts, i, vs, skip, f, results) ==
    IF ts[i].name = "" THEN env_terms(ts, i + 1, vs, skip, f, results)
    ELSE EnvSearched(ts, i, vs, skip, f, results, env_paths(vs, ts[i].name),
                     FirstFound(f, env_paths(vs, ts[i].name), 1))

\* 'for term in terms' from position i on
env_terms(ts, i, vs, skip, f, results) ==
    IF i > Len(ts) THEN [ret |-> results, err |-> ""]
    ELSE EnvTerm(ts, i, vs, SkipAfter(ts[i], skip), f, results)

\* LookupModule.run(terms, variables, **kwargs) of env_file
env_file_run(ts, vs, kw, f) ==
    IF ~vs.inventory_dir THEN [ret |-> <<>>, err |-> ""]
    ELSE env_terms(ts, 1, vs, kw.skip, f, <<>>)

EnvTermChoices ==
    {EnvStr("a"), EnvStr("b"), EnvStr(""),
     EnvDict("a", "true"), EnvDict("a", "false"), EnvDict("b", "none"),
     EnvDict("", "true")}

\* All the paths a search may look at
EnvPathUniverse ==
    {HostPath(n) : n \in EnvNames}
    \cup {GroupPath(g, n) : g \in {"db", "web", "all"}, n \in EnvNames}

GroupNameChoices == {<<>>, <<"db">>, <<"db", "web">>, <<"web", "db">>}

EnvInit ==
    /\ fs \in SUBSET EnvPathUniverse
    /\ terms \in SeqsUpTo(EnvTermChoices, MaxEnvTerms)
    /\ kwargs \in {[skip |-> sk] : sk \in BOOLEAN}
    /\ variables \in [inventory_dir : BOOLEAN, group_names : GroupNameChoices]
    /\ variables.inventory_dir \/ (variables.group_names = <<>> /\ fs = {})
    /\ params = <<>>
    /\ result = <<>>
    /\ saved = {}
    /\ heap = <<>>
    /\ heap0 = <<>>
    /\ x = NoRet
    /\ y = NoRet
    /\ recursive = FALSE
    /\ list_merge = ""
    /\ default_value = NoRet
    /\ dist_value = NoRet
    /\ suffix = ""
    /\ pc = "start_env_file"
    /\ fn = "none"
    /\ ret = NoRet
    /\ err = ""

\* The state run leaves
EnvOutcome(r) ==
    /\ ret' = r.ret
    /\ err' = r.err

env_file ==
    /\ pc = "start_env_file"
    /\ EnvOutcome(env_file_run(terms, variables, kwargs, fs))
    /\ pc' = "done"
    /\ fn' = "env_file"
    /\ UNCHANGED <<heap, heap0, x, y, recursive, list_merge>>
    /\ UNCHANGED lookupVars
    /\ UNCHANGED moduleVars

EnvNext == env_file

SpecEnvFile == EnvInit /\ [][EnvNext]_vars

\* run was called for an inventory directory.
EnvSearchDone == pc = "done" /\ fn = "env_file" /\ variables.inventory_dir

\* The host is in group g.
InGroup(g) == \E i \in DOMAIN variables.group_names : variables.group_names[i] = g

\* The places of a file name, the first one first: the host's directory,
\* the directories of the host's groups from the last group name in
\* lexicographic order to the first, the directory of the group all.
SearchOrder(name) ==
    <<HostPath(name)>>
    \o (IF InGroup("web") THEN <<GroupPath("web", name)>> ELSE <<>>)
    \o (IF InGroup("db") THEN <<GroupPath("db", name)>> ELSE <<>>)
    \o <<GroupPath("all", name)>>

\* The terms that name a file, in the order of the call.
NamedTerms == SelectSeq(terms, LAMBDA t : t.name # "")

\* The file of a term: the first existing one in the search order.
HasFile(t) == \E i \in DOMAIN SearchOrder(t.name) : SearchOrder(t.name)[i] \in fs
FileOf(t) ==
    SearchOrder(t.name)[CHOOSE i \in DOMAIN SearchOrder(t.name) :
        /\ SearchOrder(t.name)[i] \in fs
        /\ \A j \in 1..(i - 1) : SearchOrder(t.name)[j] \notin fs]

\* skip is set for a term: by the term itself when it is a dict with the
\* key skip, by the option of the call otherwise.
SkipSet(t) == IF t.t = "dict" /\ t.skip # "none" THEN t.skip = "true" ELSE kwargs.skip

\* The first term without a file.
FirstMissing ==
    NamedTerms[CHOOSE i \in DOMAIN NamedTerms :
        /\ ~HasFile(NamedTerms[i])
        /\ \A j \in 1..(i - 1) : HasFile(NamedTerms[j])]

(* C29: for each term env_file returns the first existing file in the       *)
(* order host_files/<host>/<name>, group_files/<group>/<name> for the       *)
(* host's groups in reverse-sorted order, group_files/all/<name>; when a    *)
(* term has no file the lookup raises an error that lists the searched      *)
(* paths, unless skip is set for it, in which case it returns an empty      *)
(* list.                                                                    *)
C29_FirstExistingFile ==
    EnvSearchDone =>
        IF \A i \in DOMAIN NamedTerms : HasFile(NamedTerms[i])
          THEN /\ err = ""
               /\ ret = [i \in DOMAIN NamedTerms |-> FileOf(NamedTerms[i])]
        ELSE IF SkipSet(FirstMissing) THEN err = "" /\ ret = <<>>
        ELSE err = NotFoundError(SearchOrder(FirstMissing.name))

\* A variable of either name form of sfx is defined (with a value that is
\* not None: the variables of the model hold no None).
Defined(sfx) ==
    \/ (Prefix \o sfx) \in DOMAIN variables
    \/ (Prefix \o "_" \o sfx) \in DOMAIN variables

(* C30: in default4dist a default or candidate counts as present exactly    *)
(* when a variable of either name form is defined, whatever its value (an   *)
(* empty mapping or list, 0): the lookup has a default exactly when one is  *)
(* defined, and it ends with a candidate exactly when some suffix has a     *)
(* defined variable, that candidate being a defined one.                    *)
C30_DefinedIsPresent ==
    Scanned =>
        /\ (default_value # NoneV) <=> Defined("default")
        /\ (suffix \in suffixes) <=> (\E sfx \in suffixes : Defined(sfx))
        /\ (suffix \in suffixes) => (dist_value # NoneV /\ Defined(suffix))

====
